---- MODULE Spec2Model ----
(***************************************************************************)
(* Ranked-choice (IRV) tabulation and Bayesian ballot-polling audit of     *)
(* ron-rivest/2018-rcv-audits.                                             *)
(*                                                                         *)
(* Two variants of the tabulator exist in the repository:                  *)
(*   "list" : src/rcv.py, a tally is a list of ballots;                    *)
(*   "dict" : src/maine-rcv-code/v2-ballot-dictionary_based/rcv.py, a      *)
(*            tally is a dictionary ballot -> count.                       *)
(* A ballot is a tuple of strings.  A list tally is a sequence of ballots, *)
(* a dictionary tally is a function from a finite set of ballots to        *)
(* counts.                                                                 *)
(***************************************************************************)
EXTENDS Integers, Sequences, FiniteSets, TLC

VARIABLES
    \* the tabulator (rcv.py)
    variant,        \* "list" (src/rcv.py) or "dict" (v2 rcv.py)
    rows,           \* the rows of the CSV file, a sequence of ballots
    tie_breaker,    \* the tie_breaker list handed to rcv_winner
    L,              \* the working tally of rcv_winner (L / tally)
    input_tally,    \* the cleaned tally handed to rcv_winner
    prevL,          \* the tally handed to the last call of rcv_round
    d,              \* the first-choice counts of the last rcv_round
    e,              \* the choice eliminated by the last rcv_round, or None
    w,              \* the winner returned, or None
    round_number,   \* rcv_winner's round_number
    call,           \* the cleaning function called last and its arguments
    pc,             \* position of the program
    \* the audit simulator (audit_me.py, bptool.py)
    sample_tallies,     \* per county, the sample count of each category
    total_num_votes,    \* per county, the number of votes cast
    seed,               \* the base seed
    num_trials,         \* the number of trials asked for
    unique_ballots,     \* the ballot of each category
    real_names,         \* the candidate names
    vote_for_n,         \* the number of winners asked for
    voting_method,      \* "rcv_wrapper" (compute_win_probs_rcv) or
                        \* "plurality_winner" (compute_win_probs)
    candidate_names,    \* the candidate names of compute_win_probs
    trial,              \* the number of trials started (i + 1)
    seed_i,             \* the seed of the last trial
    trial_seeds,        \* the seed of every trial started, in order
    nonsample_tallies,  \* per county, the nonsample tally of the last trial
    final_tallies,      \* the aggregated tally of the last trial
    winners,            \* what the voting method returned in the last trial
    win_count,          \* the wins recorded for each name
    win_probs,          \* the result returned, or None
    raised,             \* the exception that ended the run, or None
    sim_pc,             \* position of the simulator
    \* a second execution of the trials of the same run, in any order
    numpy_rs,           \* what the generators made so far have drawn
    trial_winners,      \* what the voting method returned in each trial
    rerun_done,         \* the trials (values of i) executed again
    rerun_winners,      \* what the voting method returned for each of them
    rerun_count,        \* the wins recorded by the second execution
    rerun_probs,        \* the result of the second execution, or None
    worker_calls,       \* generators made so far by the current worker
    rerun_raised,       \* the exception that ended the second execution
    rerun_pc            \* position of the second execution

tabVars == <<variant, rows, tie_breaker, L, input_tally, prevL, d, e, w,
             round_number, call, pc>>

\* The arguments of the simulator, and what a run changes.
simArgs == <<sample_tallies, total_num_votes, seed, num_trials, unique_ballots,
             real_names, vote_for_n, voting_method, candidate_names>>

simRun == <<trial, seed_i, trial_seeds, nonsample_tallies, final_tallies,
            winners, win_count, win_probs, raised, sim_pc>>

rerunVars == <<numpy_rs, trial_winners, rerun_done, rerun_winners,
               rerun_count, rerun_probs, worker_calls, rerun_raised,
               rerun_pc>>

simVars == <<simArgs, simRun, rerunVars>>

vars == <<tabVars, simVars>>

None == "None"

\* No second execution is made.
RerunIdle ==
    /\ numpy_rs = None
    /\ trial_winners = None
    /\ rerun_done = None
    /\ rerun_winners = None
    /\ rerun_count = None
    /\ rerun_probs = None
    /\ worker_calls = None
    /\ rerun_raised = None
    /\ rerun_pc = None

\* The simulator is not run.
SimIdle ==
    /\ RerunIdle
    /\ sample_tallies = None
    /\ total_num_votes = None
    /\ seed = None
    /\ num_trials = None
    /\ unique_ballots = None
    /\ real_names = None
    /\ vote_for_n = None
    /\ voting_method = None
    /\ candidate_names = None
    /\ trial = None
    /\ seed_i = None
    /\ trial_seeds = None
    /\ nonsample_tallies = None
    /\ final_tallies = None
    /\ winners = None
    /\ win_count = None
    /\ win_probs = None
    /\ raised = None
    /\ sim_pc = "idle"

----------------------------------------------------------------------------
(* Bounds of the model.                                                    *)

MaxBallotLen == 2       \* most choices ranked on a row of a tabulated CSV file
MaxBallots == 3         \* most rows of a tabulated CSV file
MaxRawLen == 4          \* longest ballot handed to a cleaning function
MaxCount == 2           \* largest count of a ballot in a converted tally

Candidates == {"a", "b", "c"}
Sentinels == {"undervote", "overvote"}
Tokens == Candidates \cup Sentinels

SeqsUpTo(S, n) == UNION {[1..k -> S] : k \in 0..n}

\* Python's order of the strings used as choices.
NameOrder == <<"a", "b", "c", "d", "e", "f", "overvote", "undervote">>
NameRank(name) == CHOOSE i \in 1..Len(NameOrder) : NameOrder[i] = name

TieBreakers == {<<>>, <<"a", "b", "c">>, <<"c", "b">>}

\* The example of rcv_round's docstring.
DoctestRows == << <<"a", "b">>, <<"c", "d">>, <<"c", "e">>, <<"f", "a">> >>
DoctestTieBreaker == <<"a", "b", "c", "d", "e", "f">>

----------------------------------------------------------------------------
(* Helpers for dictionaries.                                               *)

EmptyDict == <<>>

\* d[key] = value, for a key that may be new
DictSet(dict, key, value) ==
    IF key \in DOMAIN dict THEN [dict EXCEPT ![key] = value]
    ELSE dict @@ (key :> value)

\* A variant of TallyAdd that stores the count of the last ballot instead of
\* adding it.
TallyAdd_overwrite(new_tally, ballot, n) == DictSet(new_tally, ballot, n)

\* new_tally[b] = new_tally[b] + n if b in new_tally.keys() else n
TallyAdd(new_tally, ballot, n) ==
    IF ballot \in DOMAIN new_tally
    THEN [new_tally EXCEPT ![ballot] = @ + n]
    ELSE new_tally @@ (ballot :> n)

RECURSIVE SumOver(_, _)
SumOver(f, S) ==
    IF S = {} THEN 0
    ELSE LET x == CHOOSE x \in S : TRUE IN f[x] + SumOver(f, S \ {x})

\* sum(tally.values())
SumValues(f) == SumOver(f, DOMAIN f)

Range(s) == {s[i] : i \in DOMAIN s}

----------------------------------------------------------------------------
(* Ballot cleaning: delete_double_undervotes, delete_name,                 *)
(* delete_undervotes, delete_overvotes, clean.                             *)

\* The loop "for i in range(len(ballot)-1)" of delete_double_undervotes,
\* with Python's 0-based i; returns double_uv_at.
RECURSIVE double_uv_scan(_, _, _)
double_uv_scan(ballot, i, double_uv_at) ==
    IF i >= Len(ballot) - 1 THEN double_uv_at
    ELSE IF /\ ballot[i + 1] = "undervote"
            /\ ballot[i + 2] = "undervote"
            /\ double_uv_at = Len(ballot)
         THEN double_uv_scan(ballot, i + 1, i)
         ELSE double_uv_scan(ballot, i + 1, double_uv_at)

\* new_ballot = ballot[:double_uv_at]
delete_double_undervotes_ballot(ballot) ==
    SubSeq(ballot, 1, double_uv_scan(ballot, 0, Len(ballot)))

\* A variant of delete_name_scan that drops only the first occurrence of name.
RECURSIVE delete_name_scan_once(_, _, _, _, _)
delete_name_scan_once(ballot, i, name, delete_following, new_ballot) ==
    IF i > Len(ballot) THEN new_ballot
    ELSE IF ballot[i] # name
         THEN delete_name_scan_once(ballot, i + 1, name, delete_following,
                                    Append(new_ballot, ballot[i]))
         ELSE IF delete_following THEN new_ballot
              ELSE new_ballot \o SubSeq(ballot, i + 1, Len(ballot))

\* The loop "for c in ballot" of delete_name, from position i (1-based) on.
RECURSIVE delete_name_scan(_, _, _, _, _)
delete_name_scan(ballot, i, name, delete_following, new_ballot) ==
    IF i > Len(ballot) THEN new_ballot
    ELSE IF ballot[i] # name
         THEN delete_name_scan(ballot, i + 1, name, delete_following,
                               Append(new_ballot, ballot[i]))
         ELSE IF delete_following THEN new_ballot
              ELSE delete_name_scan(ballot, i + 1, name, delete_following,
                                    new_ballot)

\* A variant of delete_name_ballot that breaks at name whatever
\* delete_following is.
delete_name_ballot_breaks(ballot, name, delete_following) ==
    IF name \in Range(ballot)
    THEN delete_name_scan(ballot, 1, name, TRUE, <<>>)
    ELSE ballot

\* A variant of delete_name_ballot that deletes only when delete_following
\* is set.
delete_name_ballot_flag_only(ballot, name, delete_following) ==
    IF name \in Range(ballot) /\ delete_following
    THEN delete_name_scan(ballot, 1, name, delete_following, <<>>)
    ELSE ballot

\* A variant of delete_name_ballot whose new_ballot starts as a copy of the
\* ballot instead of the empty list.
delete_name_ballot_appends(ballot, name, delete_following) ==
    IF name \in Range(ballot)
    THEN delete_name_scan(ballot, 1, name, delete_following, ballot)
    ELSE ballot

\* The body of delete_name's loop over the ballots.
delete_name_ballot(ballot, name, delete_following) ==
    IF name \in Range(ballot)
    THEN delete_name_scan(ballot, 1, name, delete_following, <<>>)
    ELSE ballot

\* src/rcv.py: the list of the modified ballots, in order.
delete_double_undervotes_list(LL) ==
    [i \in 1..Len(LL) |-> delete_double_undervotes_ballot(LL[i])]

delete_name_list(LL, name, delete_following) ==
    [i \in 1..Len(LL) |-> delete_name_ballot(LL[i], name, delete_following)]

\* v2 rcv.py: the dictionary of the modified ballots; ballots that become
\* equal are merged, their counts added.
RECURSIVE delete_double_undervotes_fold(_, _, _)
delete_double_undervotes_fold(tally, keys, new_tally) ==
    IF keys = {} THEN new_tally
    ELSE LET ballot == CHOOSE b \in keys : TRUE
         IN delete_double_undervotes_fold(tally, keys \ {ballot},
                TallyAdd(new_tally, delete_double_undervotes_ballot(ballot),
                         tally[ballot]))

delete_double_undervotes_dict(tally) ==
    delete_double_undervotes_fold(tally, DOMAIN tally, EmptyDict)

RECURSIVE delete_name_fold(_, _, _, _, _)
delete_name_fold(tally, keys, name, delete_following, new_tally) ==
    IF keys = {} THEN new_tally
    ELSE LET ballot == CHOOSE b \in keys : TRUE
         IN delete_name_fold(tally, keys \ {ballot}, name, delete_following,
                TallyAdd(new_tally,
                         delete_name_ballot(ballot, name, delete_following),
                         tally[ballot]))

delete_name_dict(tally, name, delete_following) ==
    delete_name_fold(tally, DOMAIN tally, name, delete_following, EmptyDict)

\* Dispatch on the variant: v is "list" or "dict".
delete_double_undervotes(v, T) ==
    IF v = "list" THEN delete_double_undervotes_list(T)
    ELSE delete_double_undervotes_dict(T)

delete_name(v, T, name, delete_following) ==
    IF v = "list" THEN delete_name_list(T, name, delete_following)
    ELSE delete_name_dict(T, name, delete_following)

\* A variant of delete_undervotes that handles the double undervotes only.
delete_undervotes_double_only(v, T) == delete_double_undervotes(v, T)

delete_undervotes(v, T) ==
    delete_name(v, delete_double_undervotes(v, T), "undervote", FALSE)

\* A variant of delete_overvotes that leaves delete_following at its default.
delete_overvotes_default(v, T) == delete_name(v, T, "overvote", FALSE)

delete_overvotes(v, T) == delete_name(v, T, "overvote", TRUE)

clean(v, T) == delete_undervotes(v, delete_overvotes(v, T))

\* The two phases of clean in the other order: delete_undervotes, then
\* delete_overvotes.
clean_undervotes_first(v, T) == delete_overvotes(v, delete_undervotes(v, T))

----------------------------------------------------------------------------
(* The tabulator: count_first_choices, tie_breaker_index, rcv_round.       *)

\* A variant of zero_entries that adds an entry for the first choice only.
zero_entries_first(ballot, i, dd) ==
    IF Len(ballot) = 0 \/ ballot[1] \in DOMAIN dd THEN dd
    ELSE DictSet(dd, ballot[1], 0)

\* "for choice in ballot: if choice not in d: d[choice] = 0", from i on.
RECURSIVE zero_entries(_, _, _)
zero_entries(ballot, i, dd) ==
    IF i > Len(ballot) THEN dd
    ELSE zero_entries(ballot, i + 1,
                      IF ballot[i] \in DOMAIN dd THEN dd
                      ELSE DictSet(dd, ballot[i], 0))

\* src/rcv.py: the loop over the ballots of the list, from ballot i on.
RECURSIVE count_first_choices_scan(_, _, _)
count_first_choices_scan(LL, i, dd) ==
    IF i > Len(LL) THEN dd
    ELSE LET ballot == LL[i]
             d0 == zero_entries(ballot, 1, dd)
             d1 == IF Len(ballot) > 0
                   THEN [d0 EXCEPT ![ballot[1]] = 1 + @]
                   ELSE d0
         IN count_first_choices_scan(LL, i + 1, d1)

count_first_choices_list(LL) == count_first_choices_scan(LL, 1, EmptyDict)

\* A variant of count_first_choices_fold that skips the ballots of one choice.
RECURSIVE count_first_choices_fold_short(_, _, _)
count_first_choices_fold_short(tally, keys, dd) ==
    IF keys = {} THEN dd
    ELSE LET ballot == CHOOSE b \in keys : TRUE
             count == tally[ballot]
             d1 == IF Len(ballot) > 1
                   THEN IF ballot[1] \in DOMAIN dd
                        THEN [dd EXCEPT ![ballot[1]] = count + @]
                        ELSE DictSet(dd, ballot[1], count)
                   ELSE dd
         IN count_first_choices_fold_short(tally, keys \ {ballot}, d1)

\* v2 rcv.py: the loop over the items of the dictionary.
RECURSIVE count_first_choices_fold(_, _, _)
count_first_choices_fold(tally, keys, dd) ==
    IF keys = {} THEN dd
    ELSE LET ballot == CHOOSE b \in keys : TRUE
             count == tally[ballot]
             d1 == IF Len(ballot) > 0
                   THEN IF ballot[1] \in DOMAIN dd
                        THEN [dd EXCEPT ![ballot[1]] = count + @]
                        ELSE DictSet(dd, ballot[1], count)
                   ELSE dd
         IN count_first_choices_fold(tally, keys \ {ballot}, d1)

count_first_choices_dict(tally) ==
    count_first_choices_fold(tally, DOMAIN tally, EmptyDict)

count_first_choices(v, T) ==
    IF v = "list" THEN count_first_choices_list(T)
    ELSE count_first_choices_dict(T)

\* Python's 0-based tie_breaker.index(name), or len(tie_breaker).
tie_breaker_index(tb, name) ==
    IF name \in Range(tb)
    THEN (CHOOSE i \in 1..Len(tb) :
              tb[i] = name /\ \A j \in 1..(i - 1) : tb[j] # name) - 1
    ELSE Len(tb)

\* A variant of elimination_key without the minus sign.
elimination_key_plus(dd, tb, k) == <<dd[k], tie_breaker_index(tb, k), NameRank(k)>>

\* A variant of elimination_key that orders the names backwards.
elimination_key_name_desc(dd, tb, k) ==
    <<dd[k], 0 - tie_breaker_index(tb, k), 0 - NameRank(k)>>

\* The tuple (d[k], -tie_breaker_index(tie_breaker, k), k) of rcv_round; the
\* name is given by its rank in Python's string order.
elimination_key(dd, tb, k) == <<dd[k], 0 - tie_breaker_index(tb, k), NameRank(k)>>

\* Python's order of tuples: x <= y.
tuple_le(x, y) ==
    \/ x[1] < y[1]
    \/ x[1] = y[1] /\ x[2] < y[2]
    \/ x[1] = y[1] /\ x[2] = y[2] /\ x[3] <= y[3]

\* A variant of choice_to_eliminate that takes the last tuple of sorted(E).
choice_to_eliminate_last(dd, tb) ==
    CHOOSE k \in DOMAIN dd :
        \A j \in DOMAIN dd :
            tuple_le(elimination_key(dd, tb, j), elimination_key(dd, tb, k))

\* E = sorted(E); e = E[0][2]
choice_to_eliminate(dd, tb) ==
    CHOOSE k \in DOMAIN dd :
        \A j \in DOMAIN dd :
            tuple_le(elimination_key(dd, tb, k), elimination_key(dd, tb, j))

\* A variant of rcv_round that declares the winner on a strict majority of
\* the first choices.
rcv_round_majority(v, T, tb) ==
    LET dd == count_first_choices(v, T)
        total_first_choices == SumValues(dd)
    IN  IF ~(Cardinality(DOMAIN dd) > 0)
        THEN [failed |-> TRUE, w |-> None, d |-> dd, e |-> None, LL |-> None]
        ELSE IF Cardinality(DOMAIN dd) = 1
        THEN [failed |-> FALSE, w |-> CHOOSE k \in DOMAIN dd : TRUE,
              d |-> dd, e |-> None, LL |-> None]
        ELSE IF \E choice \in DOMAIN dd : 2 * dd[choice] > total_first_choices
        THEN [failed |-> FALSE,
              w |-> CHOOSE choice \in DOMAIN dd :
                        2 * dd[choice] > total_first_choices,
              d |-> dd, e |-> None, LL |-> None]
        ELSE LET ee == choice_to_eliminate(dd, tb)
             IN [failed |-> FALSE, w |-> None, d |-> dd, e |-> ee,
                 LL |-> delete_name(v, T, ee, FALSE)]

\* rcv_round returns (w, d, e, LL); failed stands for the AssertionError
\* 'Error: all candidates eliminated!!'.
rcv_round(v, T, tb) ==
    LET dd == count_first_choices(v, T)
        total_first_choices == SumValues(dd)
    IN  IF ~(Cardinality(DOMAIN dd) > 0)
        THEN [failed |-> TRUE, w |-> None, d |-> dd, e |-> None, LL |-> None]
        ELSE IF Cardinality(DOMAIN dd) = 1
        THEN [failed |-> FALSE, w |-> CHOOSE k \in DOMAIN dd : TRUE,
              d |-> dd, e |-> None, LL |-> None]
        ELSE IF \E choice \in DOMAIN dd : dd[choice] = total_first_choices
        THEN [failed |-> FALSE,
              w |-> CHOOSE choice \in DOMAIN dd : dd[choice] = total_first_choices,
              d |-> dd, e |-> None, LL |-> None]
        ELSE LET ee == choice_to_eliminate(dd, tb)
             IN [failed |-> FALSE, w |-> None, d |-> dd, e |-> ee,
                 LL |-> delete_name(v, T, ee, FALSE)]

----------------------------------------------------------------------------
(* The program: read_ME_data reads the rows and cleans them, rcv_winner    *)
(* runs the rounds.                                                        *)

\* A variant of tally_rows whose get has the default 1.
RECURSIVE tally_rows_default_one(_, _, _)
tally_rows_default_one(rr, i, tally) ==
    IF i > Len(rr) THEN tally
    ELSE tally_rows_default_one(rr, i + 1,
             IF rr[i] \in DOMAIN tally THEN [tally EXCEPT ![rr[i]] = 1 + @]
             ELSE tally @@ (rr[i] :> 2))

\* tally[ballot_tuple] = 1 + tally.get(ballot_tuple, 0), over the rows
RECURSIVE tally_rows(_, _, _)
tally_rows(rr, i, tally) ==
    IF i > Len(rr) THEN tally
    ELSE tally_rows(rr, i + 1, TallyAdd(tally, rr[i], 1))

\* What read_ME_data hands to clean: the list of the rows (src/rcv.py) or
\* their tally (v2 rcv.py).
raw_tally(v, rr) == IF v = "list" THEN rr ELSE tally_rows(rr, 1, EmptyDict)

\* The rows that are read: rankings of distinct candidates, and rows with
\* sentinels or with a candidate ranked twice.
Rankings == {b \in SeqsUpTo(Candidates, MaxBallotLen) :
                \A i, j \in DOMAIN b : i # j => b[i] # b[j]}

SpecialRows == { <<"overvote">>, <<"undervote", "a">>, <<"b", "overvote">>,
                 <<"undervote", "undervote">>, <<"a", "a">>,
                 <<"c", "undervote", "c">> }

InputRows == Rankings \cup SpecialRows

\* A number for each row, to list the rows of a file in one order only: the
\* tabulation does not look at the order of the rows.
RECURSIVE RowKey(_)
RowKey(b) ==
    IF b = <<>> THEN 0 ELSE NameRank(Head(b)) + 9 * RowKey(Tail(b))

InOrder(rr) ==
    \A i \in 1..(Len(rr) - 1) : RowKey(rr[i]) <= RowKey(rr[i + 1])

Init ==
    /\ \/ /\ \E n \in 0..MaxBallots : rows \in [1..n -> InputRows]
          /\ InOrder(rows)
          /\ tie_breaker \in TieBreakers
       \/ rows = DoctestRows /\ tie_breaker = DoctestTieBreaker
    /\ variant \in {"list", "dict"}
    /\ L = None
    /\ input_tally = None
    /\ prevL = None
    /\ d = EmptyDict
    /\ e = None
    /\ w = None
    /\ round_number = 0
    /\ call = None
    /\ pc = "read"
    /\ SimIdle

\* read_ME_data: L = clean(L)
read_ME_data ==
    /\ pc = "read"
    /\ pc' = "rounds"
    /\ L' = clean(variant, raw_tally(variant, rows))
    /\ input_tally' = L'
    /\ UNCHANGED <<variant, rows, tie_breaker, prevL, d, e, w, round_number, call>>
    /\ UNCHANGED simVars

\* One iteration of rcv_winner's loop.
rcv_winner_round ==
    /\ pc = "rounds"
    /\ \E r \in {rcv_round(variant, L, tie_breaker)} :
          /\ round_number' = round_number + 1
          /\ prevL' = L
          /\ d' = r.d
          /\ \/ /\ r.failed
                /\ pc' = "failed"
                /\ UNCHANGED <<L, e, w>>
             \/ /\ ~r.failed /\ r.w # None
                /\ w' = r.w
                /\ pc' = "done"
                /\ UNCHANGED <<L, e>>
             \/ /\ ~r.failed /\ r.w = None
                /\ e' = r.e
                /\ L' = delete_name(variant, r.LL, r.e, FALSE)
                /\ pc' = "rounds"
                /\ UNCHANGED w
    /\ UNCHANGED <<variant, rows, tie_breaker, input_tally, call>>
    /\ UNCHANGED simVars

Next == read_ME_data \/ rcv_winner_round

Spec == Init /\ [][Next]_vars

----------------------------------------------------------------------------
(* The two representations of a set of ballots: a tally is expanded to a   *)
(* sequence of ballots, and the sequence is collapsed to a tally the way   *)
(* read_ME_data tallies the rows of a file.                                *)

ConvertBallots == { <<>>, <<"a">>, <<"b", "a">> }

\* The tallies converted: any of the ballots, each with a count that may be
\* zero (rcv_wrapper makes such entries).
ConvertTallies ==
    UNION {[S -> 0..MaxCount] : S \in SUBSET ConvertBallots}

\* The orders in which the keys of a dictionary can be listed.
KeyOrders(tally) ==
    {order \in [1..Cardinality(DOMAIN tally) -> DOMAIN tally] :
        \A i, j \in DOMAIN order : i # j => order[i] # order[j]}

\* n copies of a ballot.
repeated(ballot, n) == [i \in 1..n |-> ballot]

\* expand: each ballot repeated contiguously as many times as its count, the
\* ballots in the order of the keys.
RECURSIVE expand(_, _)
expand(tally, order) ==
    IF order = <<>> THEN <<>>
    ELSE repeated(Head(order), tally[Head(order)]) \o expand(tally, Tail(order))

\* collapse: the occurrences of each distinct ballot are counted.
collapse(ballots) == tally_rows(ballots, 1, EmptyDict)

InitConvert ==
    /\ variant = "dict"
    /\ input_tally \in ConvertTallies
    /\ rows = <<>>
    /\ tie_breaker = <<>>
    /\ L = None
    /\ prevL = None
    /\ d = EmptyDict
    /\ e = None
    /\ w = None
    /\ round_number = 0
    /\ call = None
    /\ pc = "tally"
    /\ SimIdle

\* The tally is expanded to a sequence of ballots.
expand_tally ==
    /\ pc = "tally"
    /\ \E order \in KeyOrders(input_tally) : rows' = expand(input_tally, order)
    /\ pc' = "expanded"
    /\ UNCHANGED <<variant, tie_breaker, L, input_tally, prevL, d, e, w,
                   round_number, call>>
    /\ UNCHANGED simVars

\* The sequence is collapsed to a tally.
collapse_ballots ==
    /\ pc = "expanded"
    /\ L' = collapse(rows)
    /\ pc' = "collapsed"
    /\ UNCHANGED <<variant, rows, tie_breaker, input_tally, prevL, d, e, w,
                   round_number, call>>
    /\ UNCHANGED simVars

NextConvert == expand_tally \/ collapse_ballots

SpecConvert == InitConvert /\ [][NextConvert]_vars

----------------------------------------------------------------------------
(* The cleaning functions on their own: each is called once on a raw      *)
(* tally, and clean is called again on its own result.                     *)

RawTokens == {"a", "b", "undervote", "overvote"}
RawBallots == SeqsUpTo(RawTokens, MaxRawLen)
PartnerBallots == {<<>>, <<"a">>}

\* One raw ballot, or one raw ballot and a second one that it may collide
\* with once cleaned.
CleanInputs ==
    {<<b>> : b \in RawBallots}
        \cup {<<b, p>> : b \in RawBallots, p \in PartnerBallots}

InitClean ==
    /\ variant \in {"list", "dict"}
    /\ rows \in CleanInputs
    /\ tie_breaker = <<>>
    /\ L = None
    /\ input_tally = None
    /\ prevL = None
    /\ d = EmptyDict
    /\ e = None
    /\ w = None
    /\ round_number = 0
    /\ call = None
    /\ pc = "raw"
    /\ SimIdle

call_delete_name ==
    /\ pc = "raw"
    /\ \E name \in RawTokens, delete_following \in BOOLEAN :
          /\ L' = delete_name(variant, raw_tally(variant, rows), name,
                              delete_following)
          /\ call' = [op |-> "delete_name", name |-> name,
                      delete_following |-> delete_following]
    /\ pc' = "returned"
    /\ UNCHANGED <<variant, rows, tie_breaker, input_tally, prevL, d, e, w,
                   round_number>>
    /\ UNCHANGED simVars

call_delete_double_undervotes ==
    /\ pc = "raw"
    /\ L' = delete_double_undervotes(variant, raw_tally(variant, rows))
    /\ call' = [op |-> "delete_double_undervotes"]
    /\ pc' = "returned"
    /\ UNCHANGED <<variant, rows, tie_breaker, input_tally, prevL, d, e, w,
                   round_number>>
    /\ UNCHANGED simVars

call_clean ==
    /\ pc = "raw"
    /\ L' = clean(variant, raw_tally(variant, rows))
    /\ call' = [op |-> "clean"]
    /\ pc' = "cleaned"
    /\ UNCHANGED <<variant, rows, tie_breaker, input_tally, prevL, d, e, w,
                   round_number>>
    /\ UNCHANGED simVars

call_clean_again ==
    /\ pc = "cleaned"
    /\ prevL' = L
    /\ L' = clean(variant, L)
    /\ call' = [op |-> "clean"]
    /\ pc' = "recleaned"
    /\ UNCHANGED <<variant, rows, tie_breaker, input_tally, d, e, w,
                   round_number>>
    /\ UNCHANGED simVars

\* L = delete_undervotes(L); L = delete_overvotes(L): the calls of clean, the
\* other way round.
call_undervotes_first ==
    /\ pc = "raw"
    /\ L' = clean_undervotes_first(variant, raw_tally(variant, rows))
    /\ call' = [op |-> "undervotes_first"]
    /\ pc' = "reordered"
    /\ UNCHANGED <<variant, rows, tie_breaker, input_tally, prevL, d, e, w,
                   round_number>>
    /\ UNCHANGED simVars

NextClean ==
    \/ call_delete_name
    \/ call_delete_double_undervotes
    \/ call_clean
    \/ call_clean_again
    \/ call_undervotes_first

SpecClean == InitClean /\ [][NextClean]_vars

----------------------------------------------------------------------------
(* The audit simulator: compute_win_probs_rcv and rcv_wrapper of           *)
(* audit_me.py, compute_winner, generate_nonsample_tally and               *)
(* dirichlet_multinomial of bptool.py.  The tabulator it calls is the      *)
(* dictionary-based one.                                                   *)

MaxSampleSize == 1      \* largest sample of a county
MaxTotalVotes == 2      \* largest number of votes cast in a county
MaxTrials == 2          \* largest num_trials
MaxWinners == 2         \* largest vote_for_n

SeedMultiplier == 314159265

\* A variant of rcv_winner that returns None when rcv_round fails.
RECURSIVE rcv_winner_sentinel(_, _, _)
rcv_winner_sentinel(v, T, tb) ==
    LET r == rcv_round(v, T, tb)
    IN IF r.failed THEN None
       ELSE IF r.w # None THEN r.w
       ELSE rcv_winner_sentinel(v, delete_name(v, r.LL, r.e, FALSE), tb)

\* rcv_winner as a function: the winner, or "AssertionError" when a round
\* fails with 'Error: all candidates eliminated!!'.
RECURSIVE rcv_winner(_, _, _)
rcv_winner(v, T, tb) ==
    LET r == rcv_round(v, T, tb)
    IN IF r.failed THEN "AssertionError"
       ELSE IF r.w # None THEN r.w
       ELSE rcv_winner(v, delete_name(v, r.LL, r.e, FALSE), tb)

Exceptions == {"AssertionError", "ValueError", "IndexError", "KeyError",
               "TypeError", "ZeroDivisionError"}

\* What a call gives: a value returned, or an exception raised.
Returns(value) == [exc |-> None, value |-> value]
Raises(exception) == [exc |-> exception, value |-> None]

Min(a, b) == IF a < b THEN a ELSE b

RECURSIVE SumSeq(_)
SumSeq(s) == IF s = <<>> THEN 0 ELSE Head(s) + SumSeq(Tail(s))

\* The vectors rs.multinomial(n, pvals) can return for k categories of
\* positive probability: k counts that add up to n.
MultinomialDraws(n, k) == {v \in [1..k -> 0..n] : SumSeq(v) = n}

\* A variant of dirichlet_multinomial that draws total_num_votes ballots
\* instead of the ballots outside the sample.
dirichlet_multinomial_total(sample_tally, total) ==
    LET sample_size == SumSeq(sample_tally)
    IN IF sample_size > total THEN "ValueError"
       ELSE MultinomialDraws(total, Len(sample_tally))

\* dirichlet_multinomial: the draws it can return, or "ValueError".
dirichlet_multinomial(sample_tally, total) ==
    LET sample_size == SumSeq(sample_tally)
    IN IF sample_size > total THEN "ValueError"
       ELSE MultinomialDraws(total - sample_size, Len(sample_tally))

\* [sum(k) for k in zip(x, y)]
zip_sum(x, y) == [j \in 1..Min(Len(x), Len(y)) |-> x[j] + y[j]]

\* A variant of county_loop in which only the first county's sample is
\* compared with its total.
RECURSIVE county_loop_first_only(_, _, _, _, _)
county_loop_first_only(samples, totals, nonsamples, i, final) ==
    IF i > Len(samples) THEN Returns(final)
    ELSE IF i > Len(totals) THEN Raises("IndexError")
    ELSE IF i = 1 /\ SumSeq(samples[i]) > totals[i] THEN Raises("ValueError")
    ELSE LET final_county_tally == zip_sum(samples[i], nonsamples[i])
         IN county_loop_first_only(samples, totals, nonsamples, i + 1,
                                   IF i = 1 THEN final_county_tally
                                   ELSE zip_sum(final, final_county_tally))

\* The loop over the counties of compute_winner, from county i on, with the
\* nonsample tally of every county given: final_tallies, or the exception.
RECURSIVE county_loop(_, _, _, _, _)
county_loop(samples, totals, nonsamples, i, final) ==
    IF i > Len(samples) THEN Returns(final)
    ELSE IF i > Len(totals) THEN Raises("IndexError")
    ELSE IF SumSeq(samples[i]) > totals[i] THEN Raises("ValueError")
    ELSE LET final_county_tally == zip_sum(samples[i], nonsamples[i])
         IN county_loop(samples, totals, nonsamples, i + 1,
                        IF i = 1 THEN final_county_tally
                        ELSE zip_sum(final, final_county_tally))

\* The nonsample tallies the counties can draw in one trial; a county whose
\* draw raises draws nothing.
RECURSIVE nonsample_draws_from(_, _, _)
nonsample_draws_from(samples, totals, i) ==
    IF i > Len(samples) THEN {<<>>}
    ELSE LET draws == IF i > Len(totals) \/ SumSeq(samples[i]) > totals[i]
                      THEN {<<>>}
                      ELSE dirichlet_multinomial(samples[i], totals[i])
         IN {<<x>> \o rest : x \in draws,
                             rest \in nonsample_draws_from(samples, totals, i + 1)}

\* Every county of a trial draws from a generator made anew from the same
\* seed (create_rs(seed)): counties with the same sample tally and the same
\* total draw the same nonsample tally.
NonsampleDraws(samples, totals) ==
    {ns \in nonsample_draws_from(samples, totals, 1) :
        \A i, j \in DOMAIN samples :
            (/\ i \in DOMAIN totals /\ j \in DOMAIN totals
             /\ samples[i] = samples[j] /\ totals[i] = totals[j])
                => ns[i] = ns[j]}

\* final_tallies = [(k, final_tallies[k]) for k in range(len(final_tallies))]
\* (len(None) raises when there is no county)
indexed(samples, looped) ==
    IF looped.exc # None THEN looped
    ELSE IF Len(samples) = 0 THEN Raises("TypeError")
    ELSE Returns([j \in 1..Len(looped.value) |-> <<j - 1, looped.value[j]>>])

\* rcv_wrapper: the dictionary tally of the categories, handed to
\* rcv_winner with an empty tie_breaker.
RECURSIVE wrapper_tally(_, _, _, _)
wrapper_tally(ballots, tally_list, j, tally) ==
    IF j > Len(tally_list) THEN Returns(tally)
    ELSE LET index == tally_list[j][1]
             count == tally_list[j][2]
         IN IF index + 1 > Len(ballots) THEN Raises("IndexError")
            ELSE wrapper_tally(ballots, tally_list, j + 1,
                               DictSet(tally, ballots[index + 1], count))

rcv_wrapper(ballots, tally_list, n) ==
    LET tally == wrapper_tally(ballots, tally_list, 1, EmptyDict)
    IN IF tally.exc # None THEN tally
       ELSE LET winner == rcv_winner("dict", tally.value, <<>>)
            IN IF winner \in Exceptions THEN Raises(winner)
               ELSE Returns(winner)

\* get_candidates: the names on the ballots, as a list.
RECURSIVE names_in_order(_, _)
names_in_order(names, i) ==
    IF i > Len(NameOrder) THEN <<>>
    ELSE (IF NameOrder[i] \in names THEN <<NameOrder[i]>> ELSE <<>>)
             \o names_in_order(names, i + 1)

get_candidates(ballots) ==
    names_in_order(UNION {Range(ballots[j]) : j \in DOMAIN ballots}, 1)

\* An audit of the whole state as one county, or of two counties.
CountyCounts == {1, 2}

\* The sample tallies of a county over k categories.
SampleTallies(k) ==
    {s \in [1..k -> 0..MaxSampleSize] : SumSeq(s) <= MaxSampleSize}

UniqueBallotLists ==
    { << <<>> >>,
      << <<"a">>, <<"b", "a">> >>,
      << <<"a", "b">>, <<>>, <<"b">> >>,
      << <<"a">>, <<"b">>, <<"c", "b">> >> }

\* The candidate_names of compute_win_probs: list(range(1, k + 1)), as main
\* makes them.
CandidateLists == { <<1>>, <<1, 2>>, <<1, 2, 3>> }

\* The num_trials of a run: negative, zero or positive.
TrialCounts == (0 - 1)..MaxTrials

\* The vote_for_n of compute_win_probs: negative, zero or positive.
VoteForN == (0 - 1)..MaxWinners

\* Python's s[start:], for any integer start.
slice_from(s, start) ==
    LET n == Len(s)
        from == IF start < 0
                THEN (IF start + n < 0 THEN 0 ELSE start + n)
                ELSE (IF start > n THEN n ELSE start)
    IN SubSeq(s, from + 1, n)

\* A variant of sort_by_count that is not stable: among equal counts the
\* last of the list comes first.
RECURSIVE sort_by_count_unstable(_)
sort_by_count_unstable(tallies) ==
    IF tallies = <<>> THEN <<>>
    ELSE LET i == CHOOSE i \in DOMAIN tallies :
                      /\ \A j \in DOMAIN tallies : tallies[i][2] <= tallies[j][2]
                      /\ \A j \in (i + 1)..Len(tallies) :
                            tallies[j][2] # tallies[i][2]
         IN <<tallies[i]>> \o
            sort_by_count_unstable(SubSeq(tallies, 1, i - 1)
                                   \o SubSeq(tallies, i + 1, Len(tallies)))

\* tallies.sort(key = lambda x: x[1]): ascending by count; Python's sort is
\* stable, pairs of equal count keep their order in the list.
RECURSIVE sort_by_count(_)
sort_by_count(tallies) ==
    IF tallies = <<>> THEN <<>>
    ELSE LET i == CHOOSE i \in DOMAIN tallies :
                      /\ \A j \in DOMAIN tallies : tallies[i][2] <= tallies[j][2]
                      /\ \A j \in 1..(i - 1) : tallies[j][2] # tallies[i][2]
         IN <<tallies[i]>> \o
            sort_by_count(SubSeq(tallies, 1, i - 1)
                          \o SubSeq(tallies, i + 1, Len(tallies)))

\* plurality_winner: the candidates of tallies[-vote_for_n:] after the sort.
plurality_winner(names, tallies, n) ==
    LET winners_with_tallies == slice_from(sort_by_count(tallies), 0 - n)
    IN [j \in 1..Len(winners_with_tallies) |-> winners_with_tallies[j][1]]

\* A variant of record_wins that counts at win_count[winner].
RECURSIVE record_wins_at_winner(_, _, _)
record_wins_at_winner(wc, ws, j) ==
    IF j > Len(ws) THEN Returns(wc)
    ELSE IF ws[j] \notin DOMAIN wc THEN Raises("IndexError")
    ELSE record_wins_at_winner([wc EXCEPT ![ws[j]] = @ + 1], ws, j + 1)

\* "for winner in winners: win_count[winner+1] += 1", from the j-th winner
\* on; win_count is a list with the indices 0..num_candidates.
RECURSIVE record_wins(_, _, _)
record_wins(wc, ws, j) ==
    IF j > Len(ws) THEN Returns(wc)
    ELSE IF ws[j] + 1 \notin DOMAIN wc THEN Raises("IndexError")
    ELSE record_wins([wc EXCEPT ![ws[j] + 1] = @ + 1], ws, j + 1)

\* The tabulator is not run on a file.
TabIdle ==
    /\ variant = "dict"
    /\ rows = <<>>
    /\ tie_breaker = <<>>
    /\ L = None
    /\ input_tally = None
    /\ prevL = None
    /\ d = EmptyDict
    /\ e = None
    /\ w = None
    /\ round_number = 0
    /\ call = None
    /\ pc = "audit"

\* The numbers of counties of an audit over k categories: a contest of more
\* than two categories is audited as one county.
CountiesFor(k) == IF k <= 2 THEN CountyCounts ELSE {1}

\* The sample tallies and the totals of the counties, over k categories.
CountyInputs(k) ==
    \E n \in CountiesFor(k) :
        /\ sample_tallies \in [1..n -> SampleTallies(k)]
        /\ total_num_votes \in [1..n -> 0..MaxTotalVotes]

\* The arguments of compute_win_probs_rcv, as audit makes them.
InitRcv ==
    /\ voting_method = "rcv_wrapper"
    /\ unique_ballots \in UniqueBallotLists
    /\ real_names = get_candidates(unique_ballots)
    /\ candidate_names = None
    /\ CountyInputs(Len(unique_ballots))
    /\ vote_for_n = 1
    /\ win_count = [name \in Range(real_names) |-> 0]

\* The arguments of compute_win_probs, with vote_for_n in V.
InitPlurality(V) ==
    /\ voting_method = "plurality_winner"
    /\ candidate_names \in CandidateLists
    /\ unique_ballots = None
    /\ real_names = None
    /\ CountyInputs(Len(candidate_names))
    /\ vote_for_n \in V
    /\ win_count = [i \in 0..Len(candidate_names) |-> 0]

\* Before the first trial.
SimStart ==
    /\ trial = 0
    /\ seed_i = None
    /\ trial_seeds = <<>>
    /\ nonsample_tallies = None
    /\ final_tallies = None
    /\ winners = None
    /\ win_probs = None
    /\ raised = None
    /\ sim_pc = "loop"

InitSim ==
    /\ TabIdle
    /\ seed = 1
    /\ num_trials \in TrialCounts
    /\ InitRcv \/ InitPlurality({1})
    /\ SimStart
    /\ RerunIdle

\* compute_winner up to line 291: final_tallies, or the exception.
compute_winner(samples, totals, ns) ==
    indexed(samples, county_loop(samples, totals, ns, 1, <<>>))

\* A variant of trial_seed that adds the trial index to the seed.
trial_seed_plus_index(s, i) == s + i

\* seed_i = seed + i*314159265
trial_seed(s, i) == s + i * SeedMultiplier

\* voting_method(candidate_names, final_tallies, vote_for_n), the last
\* statement of compute_winner.
voting_method_winners(final) ==
    IF voting_method = "plurality_winner"
    THEN Returns(plurality_winner(candidate_names, final, vote_for_n))
    ELSE rcv_wrapper(unique_ballots, final, vote_for_n)

\* The wins of a trial recorded in win_count: win_count[winner+1] += 1 for
\* each winner (compute_win_probs), win_count[winner] = win_count[winner] + 1
\* (compute_win_probs_rcv).
count_wins(wc, ws) ==
    IF voting_method = "plurality_winner" THEN record_wins(wc, ws, 1)
    ELSE IF ws \notin DOMAIN wc THEN Raises("KeyError")
    ELSE Returns([wc EXCEPT ![ws] = @ + 1])

\* One iteration of the loop of compute_win_probs or compute_win_probs_rcv,
\* the counties drawing one of draws: compute_winner, then the wins are
\* recorded; an exception ends the run.
trial_with(draws) ==
    /\ sim_pc = "loop"
    /\ trial < num_trials
    /\ trial' = trial + 1
    /\ seed_i' = trial_seed(seed, trial)
    /\ trial_seeds' = Append(trial_seeds, trial_seed(seed, trial))
    /\ \E ns \in draws :
         \E final \in {compute_winner(sample_tallies, total_num_votes, ns)} :
            IF final.exc # None
            THEN /\ raised' = final.exc
                 /\ sim_pc' = "raised"
                 /\ UNCHANGED <<nonsample_tallies, final_tallies, winners,
                                win_count>>
            ELSE /\ nonsample_tallies' = ns
                 /\ final_tallies' = final.value
                 /\ \E ws \in {voting_method_winners(final.value)} :
                       IF ws.exc # None
                       THEN /\ raised' = ws.exc
                            /\ sim_pc' = "raised"
                            /\ UNCHANGED <<winners, win_count>>
                       ELSE /\ winners' = ws.value
                            /\ \E counted \in {count_wins(win_count, ws.value)} :
                                  IF counted.exc # None
                                  THEN /\ raised' = counted.exc
                                       /\ sim_pc' = "raised"
                                       /\ UNCHANGED win_count
                                  ELSE /\ win_count' = counted.value
                                       /\ UNCHANGED <<raised, sim_pc>>
    /\ UNCHANGED <<simArgs, win_probs>>
    /\ UNCHANGED tabVars

\* win_probs of compute_win_probs_rcv, as fractions <<wins, total_count>>;
\* the division is made once for each name.
win_probs_rcv(wc) ==
    LET total_count == SumValues(wc)
    IN IF total_count = 0 /\ DOMAIN wc # {} THEN Raises("ZeroDivisionError")
       ELSE Returns([name \in DOMAIN wc |-> <<wc[name], total_count>>])

\* win_probs of compute_win_probs: the pairs
\* (i, win_count[i]/float(num_trials)) for i in range(1, len(win_count)), as
\* fractions <<wins, num_trials>>.
win_probs_plurality(wc) ==
    IF num_trials = 0 /\ Len(candidate_names) >= 1
    THEN Raises("ZeroDivisionError")
    ELSE Returns([i \in 1..Len(candidate_names) |-> <<wc[i], num_trials>>])

\* The statements after the loop: win_probs is returned, or the division
\* raises.
return_with(probs) ==
    /\ sim_pc = "loop"
    /\ ~(trial < num_trials)
    /\ IF probs.exc # None
       THEN /\ raised' = probs.exc
            /\ sim_pc' = "raised"
            /\ UNCHANGED win_probs
       ELSE /\ win_probs' = probs.value
            /\ sim_pc' = "returned"
            /\ UNCHANGED raised
    /\ UNCHANGED <<simArgs, trial, seed_i, trial_seeds, nonsample_tallies,
                   final_tallies, winners, win_count>>
    /\ UNCHANGED rerunVars
    /\ UNCHANGED tabVars

\* One iteration of compute_win_probs_rcv's loop.
run_trial ==
    /\ voting_method = "rcv_wrapper"
    /\ trial_with(NonsampleDraws(sample_tallies, total_num_votes))
    /\ UNCHANGED rerunVars

\* After the loop of compute_win_probs_rcv.
return_win_probs ==
    /\ voting_method = "rcv_wrapper"
    /\ return_with(win_probs_rcv(win_count))

\* One iteration of compute_win_probs's loop.
compute_win_probs_trial ==
    /\ voting_method = "plurality_winner"
    /\ trial_with(NonsampleDraws(sample_tallies, total_num_votes))
    /\ UNCHANGED rerunVars

\* After the loop of compute_win_probs.
compute_win_probs_return ==
    /\ voting_method = "plurality_winner"
    /\ return_with(win_probs_plurality(win_count))

NextRcv == run_trial \/ return_win_probs

NextPlur == compute_win_probs_trial \/ compute_win_probs_return

NextSim == NextRcv \/ NextPlur

SpecSim == InitSim /\ [][NextSim]_vars

\* compute_win_probs alone, with every vote_for_n.
InitPlur ==
    /\ TabIdle
    /\ seed = 1
    /\ num_trials \in 1..MaxTrials
    /\ InitPlurality(VoteForN)
    /\ SimStart
    /\ RerunIdle

SpecPlur == InitPlur /\ [][NextPlur]_vars

\* ---------------------------------------------------------------------
\* The trials of one run executed twice.  numpy's generator is a fixed
\* function that the model does not know: what a generator draws for a
\* county is chosen when it is first asked for and is the same whenever the
\* same generator is asked again for the same sample tally and total.  The
\* first execution is the loop of the code; the second executes the same
\* iterations in any order, each on the current worker or on a new one.

\* A variant of create_rs that goes on with the generator the worker has
\* already used instead of making one from the seed.
create_rs_shared(seed_value, calls) == calls

\* create_rs: np.random.RandomState(seed), a generator that depends on the
\* seed alone and not on the calls the worker has made before.
create_rs(seed_value, calls) == seed_value

\* What identifies the draw of each county in a trial with seed s_i on a
\* worker that has made `calls` generators: generate_nonsample_tally makes
\* its generator and draws from it for the county's sample tally and total.
rs_keys(s_i, calls) ==
    [c \in DOMAIN sample_tallies |->
        <<create_rs(s_i, calls + c - 1), sample_tallies[c], total_num_votes[c]>>]

\* The nonsample tallies the counties can draw: a draw made before is made
\* again.
SeededDraws(keys) ==
    {ns \in nonsample_draws_from(sample_tallies, total_num_votes, 1) :
        \A c \in DOMAIN keys :
            /\ keys[c] \in DOMAIN numpy_rs => ns[c] = numpy_rs[keys[c]]
            /\ \A c2 \in DOMAIN keys : keys[c] = keys[c2] => ns[c] = ns[c2]}

\* The draws made so far, with those of one more trial.
Memoize(memo, keys, ns) ==
    [k \in DOMAIN memo \cup Range(keys) |->
        IF k \in DOMAIN memo THEN memo[k]
        ELSE ns[CHOOSE c \in DOMAIN keys : keys[c] = k]]

\* The contests executed twice: at most two categories, and more than one
\* county only where there is one category.
InitRuns ==
    /\ TabIdle
    /\ seed = 1
    /\ num_trials \in 1..MaxTrials
    /\ InitRcv \/ InitPlurality({1})
    /\ Len(sample_tallies[1]) <= 2
    /\ Len(sample_tallies) = 1 \/ Len(sample_tallies[1]) = 1
    /\ SimStart
    /\ numpy_rs = <<>>
    /\ trial_winners = <<>>
    /\ rerun_done = {}
    /\ rerun_winners = [t \in 0..(num_trials - 1) |-> None]
    /\ rerun_count = win_count
    /\ rerun_probs = None
    /\ worker_calls = 0
    /\ rerun_raised = None
    /\ rerun_pc = "loop"

\* One iteration of the loop, in the order of the code on one worker.
seeded_trial ==
    /\ \E keys \in {rs_keys(trial_seed(seed, trial),
                            trial * Len(sample_tallies))} :
          /\ trial_with(SeededDraws(keys))
          /\ IF sim_pc' = "raised"
             THEN UNCHANGED <<numpy_rs, trial_winners>>
             ELSE /\ numpy_rs' = Memoize(numpy_rs, keys, nonsample_tallies')
                  /\ trial_winners' = Append(trial_winners, winners')
    /\ UNCHANGED <<rerun_done, rerun_winners, rerun_count, rerun_probs,
                   worker_calls, rerun_raised, rerun_pc>>

\* The body of the loop for one i not yet executed again, on the current
\* worker or on a new one: seed_i is computed from seed and i, compute_winner
\* is called and the wins are recorded.
rerun_trial ==
    /\ sim_pc = "returned"
    /\ rerun_pc = "loop"
    /\ \E t \in (0..(num_trials - 1)) \ rerun_done, new_worker \in BOOLEAN :
         \E calls \in {IF new_worker THEN 0 ELSE worker_calls} :
           \E keys \in {rs_keys(trial_seed(seed, t), calls)} :
             \E ns \in SeededDraws(keys) :
               /\ numpy_rs' = Memoize(numpy_rs, keys, ns)
               /\ worker_calls' = calls + Len(sample_tallies)
               /\ rerun_done' = rerun_done \cup {t}
               /\ \E final \in {compute_winner(sample_tallies,
                                               total_num_votes, ns)} :
                    IF final.exc # None
                    THEN /\ rerun_raised' = final.exc
                         /\ UNCHANGED <<rerun_winners, rerun_count>>
                    ELSE \E ws \in {voting_method_winners(final.value)} :
                           IF ws.exc # None
                           THEN /\ rerun_raised' = ws.exc
                                /\ UNCHANGED <<rerun_winners, rerun_count>>
                           ELSE /\ rerun_winners' =
                                      [rerun_winners EXCEPT ![t] = ws.value]
                                /\ \E counted \in
                                        {count_wins(rerun_count, ws.value)} :
                                      IF counted.exc # None
                                      THEN /\ rerun_raised' = counted.exc
                                           /\ UNCHANGED rerun_count
                                      ELSE /\ rerun_count' = counted.value
                                           /\ UNCHANGED rerun_raised
    /\ rerun_pc' = IF rerun_raised' # None THEN "raised" ELSE "loop"
    /\ UNCHANGED rerun_probs
    /\ UNCHANGED <<simArgs, simRun, trial_winners>>
    /\ UNCHANGED tabVars

\* The statements after the loop, for the second execution.
rerun_return ==
    /\ sim_pc = "returned"
    /\ rerun_pc = "loop"
    /\ rerun_done = 0..(num_trials - 1)
    /\ \E probs \in {IF voting_method = "plurality_winner"
                     THEN win_probs_plurality(rerun_count)
                     ELSE win_probs_rcv(rerun_count)} :
          IF probs.exc # None
          THEN /\ rerun_raised' = probs.exc
               /\ rerun_pc' = "raised"
               /\ UNCHANGED rerun_probs
          ELSE /\ rerun_probs' = probs.value
               /\ rerun_pc' = "returned"
               /\ UNCHANGED rerun_raised
    /\ UNCHANGED <<numpy_rs, trial_winners, rerun_done, rerun_winners,
                   rerun_count, worker_calls>>
    /\ UNCHANGED <<simArgs, simRun>>
    /\ UNCHANGED tabVars

NextRuns ==
    \/ seeded_trial
    \/ return_win_probs
    \/ compute_win_probs_return
    \/ rerun_trial
    \/ rerun_return

SpecRuns == InitRuns /\ [][NextRuns]_vars

\* ---------------------------------------------------------------------
\* The simulators called with any two lists: sample_tallies and
\* total_num_votes have up to two entries each, and need not have the same
\* number of them.

\* Most entries of either list.
ListLengths == 0..2

\* The sample tallies over k categories and the totals, each list of any
\* length.
AnyCountyLists(k) ==
    \E n \in ListLengths, m \in ListLengths :
        /\ sample_tallies \in [1..n -> SampleTallies(k)]
        /\ total_num_votes \in [1..m -> 0..MaxTotalVotes]

InitLists ==
    /\ TabIdle
    /\ seed = 1
    /\ num_trials \in 1..MaxTrials
    /\ vote_for_n = 1
    /\ \/ /\ voting_method = "rcv_wrapper"
          /\ unique_ballots = << <<"a">>, <<"b", "a">> >>
          /\ real_names = get_candidates(unique_ballots)
          /\ candidate_names = None
          /\ AnyCountyLists(Len(unique_ballots))
          /\ win_count = [name \in Range(real_names) |-> 0]
       \/ /\ voting_method = "plurality_winner"
          /\ candidate_names \in { <<1>>, <<1, 2>> }
          /\ unique_ballots = None
          /\ real_names = None
          /\ AnyCountyLists(Len(candidate_names))
          /\ win_count = [i \in 0..Len(candidate_names) |-> 0]
    /\ SimStart
    /\ RerunIdle

SpecLists == InitLists /\ [][NextSim]_vars

----------------------------------------------------------------------------
(* Vocabulary of the properties, stated on the tallies themselves.         *)

\* The ballots of a tally, and how many times each is represented.
BallotsOf(v, T) == IF v = "list" THEN Range(T) ELSE DOMAIN T

Multiplicity(v, T, ballot) ==
    IF v = "list" THEN Cardinality({i \in DOMAIN T : T[i] = ballot})
    ELSE IF ballot \in DOMAIN T THEN T[ballot] ELSE 0

\* The number of ballots a tally represents.
TotalCount(v, T) == IF v = "list" THEN Len(T) ELSE SumValues(T)

\* The choices that appear at any position of any ballot.
ChoicesIn(v, T) == UNION {Range(ballot) : ballot \in BallotsOf(v, T)}

\* The choices that are the first choice of some ballot.
FirstChoicesIn(v, T) ==
    {ballot[1] : ballot \in {b \in BallotsOf(v, T) : Len(b) > 0}}

\* The number of ballots whose first choice is c.
FirstChoiceVotes(v, T, c) ==
    IF v = "list"
    THEN Cardinality({i \in DOMAIN T : Len(T[i]) > 0 /\ T[i][1] = c})
    ELSE SumOver(T, {b \in DOMAIN T : Len(b) > 0 /\ b[1] = c})

\* result is the tally that holds F(ballot) for every ballot of the rows rr:
\* in order (list), or merged with the counts added (dictionary).
MapsEachBallot(F(_), v, rr, result) ==
    IF v = "list"
    THEN /\ DOMAIN result = DOMAIN rr
         /\ \A i \in DOMAIN rr : result[i] = F(rr[i])
    ELSE /\ DOMAIN result = {F(rr[i]) : i \in DOMAIN rr}
         /\ \A b \in DOMAIN result :
                result[b] = Cardinality({i \in DOMAIN rr : F(rr[i]) = b})

\* The first position of s that satisfies P, or Len(s) + 1.
FirstPosition(s, P(_)) ==
    IF \E i \in DOMAIN s : P(i)
    THEN CHOOSE i \in DOMAIN s : P(i) /\ \A j \in 1..(i - 1) : ~P(j)
    ELSE Len(s) + 1

Without(s, name) == SelectSeq(s, LAMBDA t : t # name)

Before(s, name) ==
    SubSeq(s, 1, FirstPosition(s, LAMBDA i : s[i] = name) - 1)

BeforeDoubleUndervote(s) ==
    SubSeq(s, 1, FirstPosition(s, LAMBDA i :
                     /\ i < Len(s)
                     /\ s[i] = "undervote"
                     /\ s[i + 1] = "undervote") - 1)

\* The reference result of cleaning one ballot.
CleanReference(B) ==
    LET P == Before(B, "overvote")
        Q == BeforeDoubleUndervote(P)
    IN Without(Q, "undervote")

\* The tally handed to rcv_winner.
InputTally == input_tally

\* The count of every ballot of a tally, as a function.
Counts(v, T) == [b \in BallotsOf(v, T) |-> Multiplicity(v, T, b)]

\* after holds F(b) for every ballot b of before and nothing else, and the
\* count of each of its ballots is the sum of the counts of the ballots of
\* before that F maps to it.
MergesCounts(F(_), v, before, after) ==
    /\ BallotsOf(v, after) = {F(b) : b \in BallotsOf(v, before)}
    /\ \A b \in BallotsOf(v, after) :
          Multiplicity(v, after, b) =
              SumOver(Counts(v, before),
                      {b0 \in BallotsOf(v, before) : F(b0) = b})

\* The ballot that clean makes of one ballot.
CleanedBallot(v, ballot) ==
    CHOOSE b \in BallotsOf(v, clean(v, raw_tally(v, <<ballot>>))) : TRUE

----------------------------------------------------------------------------
(* Properties of the cleaning functions (SpecClean).                       *)

\* C8: clean maps each ballot B to the reference result: the prefix P of B
\* before the first overvote, then the prefix Q of P before the first double
\* undervote, then Q without its remaining undervotes.
C8_CleanIsReference ==
    pc = "cleaned" => MapsEachBallot(CleanReference, variant, rows, L)

\* A ballot with a double undervote before an overvote, and a choice that
\* survives, has been cleaned.
C8_Witness ==
    /\ pc = "cleaned"
    /\ \E i \in DOMAIN rows :
          /\ "overvote" \in Range(rows[i])
          /\ BeforeDoubleUndervote(Before(rows[i], "overvote"))
                 # Before(rows[i], "overvote")
          /\ CleanReference(rows[i]) # <<>>

\* C9: clean is idempotent: cleaning the result of clean changes nothing.
C9_CleanIdempotent == pc = "recleaned" => L = prevL

\* A tally that the first clean changed, and did not empty, was cleaned twice.
C9_Witness ==
    /\ pc = "recleaned"
    /\ prevL # raw_tally(variant, rows)
    /\ \E b \in BallotsOf(variant, prevL) : Len(b) >= 2

\* C10: delete_name with delete_following = False removes exactly the
\* occurrences of name and keeps the other tokens in order; with
\* delete_following = True it truncates each ballot at the first occurrence
\* of name; a ballot that does not contain name is unchanged in both modes.
C10_DeleteName ==
    (pc = "returned" /\ call.op = "delete_name") =>
        /\ ~call.delete_following =>
              MapsEachBallot(LAMBDA b : Without(b, call.name), variant, rows, L)
        /\ call.delete_following =>
              MapsEachBallot(LAMBDA b : Before(b, call.name), variant, rows, L)
        /\ \A i \in DOMAIN rows :
              call.name \notin Range(rows[i]) =>
                  IF variant = "list" THEN L[i] = rows[i]
                  ELSE rows[i] \in DOMAIN L

\* A name has been deleted, without the following tokens, from a ballot that
\* holds it twice with another token between and one after.
C10_Witness ==
    /\ pc = "returned" /\ call.op = "delete_name"
    /\ ~call.delete_following
    /\ \E i \in DOMAIN rows :
          /\ Len(rows[i]) = 4
          /\ rows[i][1] = call.name /\ rows[i][3] = call.name
          /\ rows[i][2] # call.name /\ rows[i][4] # call.name

\* C12: cleaning never adds a token: the ballot that clean makes of a ballot
\* is no longer than that ballot, and the cleaned tally holds exactly the
\* ballots made of the rows.
C12_NonExpansion ==
    pc = "cleaned" =>
        /\ \A i \in DOMAIN rows :
              /\ Len(CleanedBallot(variant, rows[i])) <= Len(rows[i])
              /\ CleanedBallot(variant, rows[i]) \in BallotsOf(variant, L)
              /\ variant = "list" => L[i] = CleanedBallot(variant, rows[i])
        /\ \A b \in BallotsOf(variant, L) :
              \E i \in DOMAIN rows : b = CleanedBallot(variant, rows[i])

\* A tally has been cleaned in which one ballot lost tokens and kept some,
\* and another ballot kept all of its tokens.
C12_Witness ==
    /\ pc = "cleaned"
    /\ \E i, j \in DOMAIN rows :
          /\ 0 < Len(CleanedBallot(variant, rows[i]))
          /\ Len(CleanedBallot(variant, rows[i])) < Len(rows[i])
          /\ rows[j] # <<>>
          /\ CleanedBallot(variant, rows[j]) = rows[j]

----------------------------------------------------------------------------
(* Properties of the tabulator (Spec).                                     *)

\* The last call of rcv_round eliminated a choice / has returned.
AfterElimination == pc = "rounds" /\ round_number >= 1
AfterRound == round_number >= 1

\* The tie-break index of a choice: its 0-based position in the tie-break
\* list, the length of the list when it is absent.
TieBreakPosition(k) ==
    FirstPosition(tie_breaker, LAMBDA i : tie_breaker[i] = k) - 1

\* C1: in a round that declares no winner the eliminated candidate has the
\* minimum first-choice count of the round, and the largest tie-break index
\* among the candidates tied at the minimum; a candidate absent from the
\* tie-break list (index = length of the list) goes before any listed
\* candidate it is tied with.
C1_Elimination ==
    AfterElimination =>
        /\ e \in DOMAIN d
        /\ \A k \in DOMAIN d : d[e] <= d[k]
        /\ \A k \in DOMAIN d :
              d[k] = d[e] => TieBreakPosition(k) <= TieBreakPosition(e)
        /\ \A k \in DOMAIN d :
              (d[k] = d[e] /\ k \notin Range(tie_breaker)) =>
                  /\ e \notin Range(tie_breaker)
                  /\ TieBreakPosition(e) = Len(tie_breaker)

\* A candidate absent from the tie-break list was eliminated while tied, with
\* votes, with a listed candidate.
C1_Witness ==
    /\ AfterElimination
    /\ e \notin Range(tie_breaker)
    /\ d[e] > 0
    /\ \E k \in DOMAIN d : k \in Range(tie_breaker) /\ d[k] = d[e]

\* C2: for a tally in which a candidate holds a first-choice vote, rcv_winner
\* returns a winner after at most as many rounds as there are distinct
\* candidates in the tally: it never fails, and it is never still looping
\* after that many rounds.
C2_Termination ==
    (pc # "read" /\ FirstChoicesIn(variant, InputTally) # {}) =>
        LET n == Cardinality(ChoicesIn(variant, InputTally))
        IN /\ pc # "failed"
           /\ round_number <= n
           /\ pc = "rounds" => round_number < n
           /\ pc = "done" => w \in ChoicesIn(variant, InputTally)

\* A tally of three candidates took all three rounds.
C2_Witness ==
    /\ pc = "done"
    /\ round_number = 3
    /\ Cardinality(ChoicesIn(variant, InputTally)) = 3

\* C3: rcv_round declares a winner if and only if one candidate holds all the
\* first-choice votes of the round, and that candidate is the winner; so a
\* tally whose non-empty ballots all begin with the same candidate returns
\* that candidate in round 1, whatever the tie-break order.
C3_WinnerIffUnanimous ==
    AfterRound =>
        /\ pc = "done" <=> Cardinality(FirstChoicesIn(variant, prevL)) = 1
        /\ pc = "done" =>
              /\ FirstChoicesIn(variant, prevL) = {w}
              /\ d[w] = SumValues(d)
        /\ \A c \in Tokens :
              FirstChoicesIn(variant, InputTally) = {c} =>
                  round_number = 1 /\ pc = "done" /\ w = c

\* The tally {('a','b'):1, ('a','c'):1} returned 'a' in round 1.
C3_Witness ==
    /\ rows = << <<"a", "b">>, <<"a", "c">> >>
    /\ pc = "done"
    /\ round_number = 1
    /\ w = "a"

\* C4 as stated, for both variants: count_first_choices has an entry for
\* every candidate at any position of any ballot, the number of ballots that
\* begin with it.
C4_EntryForEveryChoice ==
    AfterRound =>
        /\ DOMAIN d = ChoicesIn(variant, prevL)
        /\ \A c \in DOMAIN d : d[c] = FirstChoiceVotes(variant, prevL, c)

\* C4, amended: the list-based count_first_choices (src/rcv.py) has an entry,
\* possibly zero, for every candidate at any position of any ballot; the
\* dictionary-based one (v2 rcv.py) has entries only for the candidates that
\* are the first choice of some ballot; in both, the entry is the number of
\* ballots that begin with the candidate, and an empty ballot adds nothing.
C4_FirstChoiceCounts ==
    AfterRound =>
        /\ variant = "list" => DOMAIN d = ChoicesIn(variant, prevL)
        /\ variant = "dict" => DOMAIN d = FirstChoicesIn(variant, prevL)
        /\ \A c \in DOMAIN d : d[c] = FirstChoiceVotes(variant, prevL, c)
        /\ SumValues(d) =
              TotalCount(variant, prevL) - Multiplicity(variant, prevL, <<>>)

\* The list-based count gave a zero entry, on a tally with an empty ballot.
C4_Witness ==
    /\ AfterRound
    /\ variant = "list"
    /\ \E c \in DOMAIN d : d[c] = 0
    /\ <<>> \in BallotsOf(variant, prevL)
    /\ \E c \in DOMAIN d : d[c] = 2

C7_NonEmptyNeverExhausted ==
    (pc # "read" /\ TotalCount(variant, InputTally) >= 1) => pc # "failed"

\* C7, amended: a cleaned tally with at least one non-empty ballot never
\* reaches the 'all candidates eliminated' failure, in any round; a cleaned
\* tally whose ballots are all empty reaches it in round 1.
C7_NeverExhausted ==
    pc # "read" =>
        /\ (\E b \in BallotsOf(variant, InputTally) : Len(b) > 0) => pc # "failed"
        /\ pc = "failed" =>
              /\ round_number = 1
              /\ \A b \in BallotsOf(variant, InputTally) : b = <<>>

\* A cleaned tally with an empty ballot and other ballots was tabulated to
\* a winner, through an elimination.
C7_Witness ==
    /\ pc = "done"
    /\ round_number >= 2
    /\ <<>> \in BallotsOf(variant, InputTally)
    /\ \E i \in DOMAIN rows : Range(rows[i]) \cap Sentinels # {}

\* C11: the number of ballots represented is conserved: the cleaned tally
\* represents as many ballots as rows were read, every round of rcv_winner
\* leaves that number unchanged, and ballots that clean or an elimination
\* makes equal are merged, the count of the merged ballot being the sum of
\* their counts; empty ballots are kept.
C11_Conservation ==
    /\ pc # "read" =>
          /\ TotalCount(variant, InputTally) = Len(rows)
          /\ TotalCount(variant, L) = Len(rows)
          /\ MergesCounts(CleanReference, variant,
                          raw_tally(variant, rows), InputTally)
    /\ AfterElimination =>
          /\ TotalCount(variant, L) = TotalCount(variant, prevL)
          /\ MergesCounts(LAMBDA b : Without(b, e), variant, prevL, L)

\* An elimination has merged two different ballots, one of them into the
\* empty ballot, in a tally that cleaning had changed.
C11_Witness ==
    /\ AfterElimination
    /\ InputTally # raw_tally(variant, rows)
    /\ <<>> \in BallotsOf(variant, L)
    /\ <<>> \notin BallotsOf(variant, prevL)
    /\ \E b1, b2 \in BallotsOf(variant, prevL) :
          /\ b1 # b2
          /\ Without(b1, e) = Without(b2, e)

----------------------------------------------------------------------------
(* Properties of the audit simulator (SpecSim).                            *)

\* The ballots of the tally that rcv_wrapper built in the last trial.
LastTrialBallots ==
    {unique_ballots[final_tallies[j][1] + 1] : j \in DOMAIN final_tallies}

\* No county's sample exceeds its total.
SamplesWithinTotals ==
    \A i \in DOMAIN sample_tallies :
        SumSeq(sample_tallies[i]) <= total_num_votes[i]

\* C6: when the first-choice count map of a round is empty (the tally holds
\* only empty ballots), rcv_round fails with 'all candidates eliminated'
\* instead of returning a winner or a sentinel, and inside a trial the whole
\* run of compute_win_probs_rcv ends there: no win is recorded, no further
\* trial runs and no win probabilities are returned.
C6_ExhaustedAborts ==
    /\ (/\ voting_method = "rcv_wrapper"
        /\ trial >= 1
        /\ SamplesWithinTotals
        /\ \A j \in DOMAIN unique_ballots : unique_ballots[j] = <<>>) =>
            /\ sim_pc = "raised"
            /\ raised = "AssertionError"
    /\ raised = "AssertionError" =>
            /\ sim_pc = "raised"
            /\ \A b \in LastTrialBallots : b = <<>>
            /\ trial = 1
            /\ SumValues(win_count) = 0
            /\ win_probs = None
            /\ ~ENABLED NextSim
    /\ sim_pc = "returned" => raised = None

\* The first of two trials failed with 'all candidates eliminated', on the
\* aggregate of two counties.
C6_Witness ==
    /\ sim_pc = "raised"
    /\ raised = "AssertionError"
    /\ num_trials = 2
    /\ trial = 1
    /\ Len(sample_tallies) = 2
    /\ win_probs = None

\* The candidates that win_count counts: the names (compute_win_probs_rcv)
\* or the indices 1..num_candidates (compute_win_probs).
Counted ==
    IF voting_method = "plurality_winner" THEN DOMAIN win_count \ {0}
    ELSE DOMAIN win_count

\* The wins recorded, over all candidates.
TotalWins == SumOver(win_count, Counted)

\* C13: with vote_for_n = 1 and num_trials >= 1, each trial adds exactly one
\* win, so that after the trials the wins recorded over all candidates are
\* num_trials; every probability returned is a fraction wins/total between 0
\* and 1 and the fractions add up to 1; in compute_win_probs and in
\* compute_win_probs_rcv.
C13_WinsSumToTrials ==
    (vote_for_n = 1 /\ num_trials >= 1) =>
        /\ sim_pc \in {"loop", "returned"} => TotalWins = trial
        /\ sim_pc = "returned" =>
              /\ trial = num_trials
              /\ TotalWins = num_trials
              /\ DOMAIN win_probs = Counted
              /\ \A c \in Counted :
                    /\ win_probs[c] = <<win_count[c], num_trials>>
                    /\ 0 <= win_probs[c][1]
                    /\ win_probs[c][1] <= win_probs[c][2]
              /\ SumOver([c \in Counted |-> win_probs[c][1]], Counted)
                    = num_trials

\* compute_win_probs_rcv has returned after two trials that two different
\* candidates won.
C13_Witness ==
    /\ voting_method = "rcv_wrapper"
    /\ sim_pc = "returned"
    /\ num_trials = 2
    /\ \E c1, c2 \in Counted :
          c1 # c2 /\ win_probs[c1] = <<1, 2>> /\ win_probs[c2] = <<1, 2>>

\* ---------------------------------------------------------------------
\* C14: the winner of a trial depends on the arguments of the run and on the
\* trial's index alone, nothing being carried from one trial to the next:
\* when the trials of a run that returned are executed again, in any order
\* and on any split over workers, every trial has the winner it had, no
\* exception is raised, and once all are executed the win counts, and the
\* probabilities returned, are those of the run.
C14_TrialsIndependent ==
    sim_pc = "returned" =>
        /\ rerun_pc # "raised"
        /\ \A t \in rerun_done : rerun_winners[t] = trial_winners[t + 1]
        /\ rerun_done = 0..(num_trials - 1) => rerun_count = win_count
        /\ rerun_pc = "returned" => rerun_probs = win_probs

\* Two trials with different winners executed again last first, each on a
\* worker of its own, and the probabilities returned.
C14_Witness ==
    /\ sim_pc = "returned"
    /\ num_trials >= 2
    /\ trial_winners[1] # trial_winners[2]
    /\ rerun_done = 0..(num_trials - 1)
    /\ worker_calls = Len(sample_tallies)
    /\ rerun_pc = "returned"
    /\ rerun_probs = win_probs

\* ---------------------------------------------------------------------
\* C15: in a run of either simulator with base seed s, the trial with
\* 0-based index t is seeded with exactly s + t*314159265, so any two
\* different trials of the run have different seeds.
C15_TrialSeeds ==
    /\ Len(trial_seeds) = trial
    /\ \A t \in 0..(trial - 1) : trial_seeds[t + 1] = seed + t * 314159265
    /\ trial >= 1 => seed_i = seed + (trial - 1) * 314159265
    /\ \A t1, t2 \in DOMAIN trial_seeds :
          t1 # t2 => trial_seeds[t1] # trial_seeds[t2]

\* The second trial of a plurality run with seed 1 has been seeded.
C15_Witness ==
    /\ voting_method = "plurality_winner"
    /\ seed = 1
    /\ trial = 2
    /\ trial_seeds = <<1, 314159266>>
    /\ seed_i = 314159266

\* ---------------------------------------------------------------------
\* C16: plurality_winner orders the candidates ascending by their aggregated
\* count, candidates with equal counts staying in ascending order of their
\* index, and returns the last vote_for_n of that order (all of them when
\* there are fewer); with vote_for_n = 1 the winner has the maximum count and
\* is, among the candidates with that count, the one with the largest index.

\* The aggregated count of the candidate with 0-based index j.
CountOf(j) == final_tallies[j + 1][2]

\* The 0-based indices of the candidates.
TalliedIndices == 0..(Len(final_tallies) - 1)

\* Candidate i comes before candidate j in the order of the claim.
ComesBefore(i, j) ==
    \/ CountOf(i) < CountOf(j)
    \/ CountOf(i) = CountOf(j) /\ i < j

\* The position of candidate j in that order, from 1.
RankOf(j) == Cardinality({i \in TalliedIndices : ComesBefore(i, j)}) + 1

C16_PluralityOrder ==
    (vote_for_n >= 1 /\ trial >= 1 /\ SamplesWithinTotals) =>
        /\ \A j \in TalliedIndices : final_tallies[j + 1][1] = j
        /\ Len(winners) = Min(vote_for_n, Len(final_tallies))
        /\ \A m \in DOMAIN winners :
              /\ winners[m] \in TalliedIndices
              /\ RankOf(winners[m]) = Len(final_tallies) - Len(winners) + m
        /\ vote_for_n = 1 =>
              /\ \A j \in TalliedIndices : CountOf(j) <= CountOf(winners[1])
              /\ \A j \in TalliedIndices :
                    CountOf(j) = CountOf(winners[1]) => j <= winners[1]

\* Two winners of three candidates, the first and the last tied at the
\* maximum: they are returned in ascending order of index.
C16_Witness ==
    /\ vote_for_n = 2
    /\ trial >= 1
    /\ SamplesWithinTotals
    /\ Len(final_tallies) = 3
    /\ CountOf(0) = 1 /\ CountOf(1) = 0 /\ CountOf(2) = 1
    /\ winners = <<0, 2>>

\* ---------------------------------------------------------------------
\* C17: in every trial of a run whose counties list the same categories and
\* have sample totals within their declared totals, the nonsample counts
\* drawn for county i are non-negative and add up to total_num_votes[i]
\* minus the county's sample total; the aggregate handed to the voting method
\* is, category by category, the sum over the counties of sample count plus
\* nonsample count, so its grand total is the sum of the declared totals and
\* every category has at least the sum of its sample counts.

\* The counties of the run.
Counties == DOMAIN sample_tallies

\* The sum over the counties of the counts that t has for category j.
CategorySum(t, j) == SumOver([i \in Counties |-> t[i][j]], Counties)

C17_SyntheticTally ==
    (trial >= 1 /\ SamplesWithinTotals) =>
        LET k == Len(sample_tallies[1])
        IN /\ DOMAIN nonsample_tallies = Counties
           /\ \A i \in Counties :
                 /\ Len(sample_tallies[i]) = k
                 /\ Len(nonsample_tallies[i]) = k
                 /\ \A j \in 1..k : nonsample_tallies[i][j] >= 0
                 /\ SumSeq(nonsample_tallies[i])
                       = total_num_votes[i] - SumSeq(sample_tallies[i])
           /\ Len(final_tallies) = k
           /\ \A j \in 1..k :
                 /\ final_tallies[j][1] = j - 1
                 /\ final_tallies[j][2] = CategorySum(sample_tallies, j)
                                          + CategorySum(nonsample_tallies, j)
                 /\ final_tallies[j][2] >= CategorySum(sample_tallies, j)
           /\ SumSeq([j \in 1..k |-> final_tallies[j][2]])
                 = SumSeq(total_num_votes)

\* A trial of two counties with two categories: the first has a ballot in
\* its sample and one outside, the second has only ballots outside its
\* sample.
C17_Witness ==
    /\ trial >= 1
    /\ SamplesWithinTotals
    /\ Len(sample_tallies) = 2
    /\ Len(sample_tallies[1]) = 2
    /\ SumSeq(sample_tallies[1]) = 1
    /\ SumSeq(nonsample_tallies[1]) = 1
    /\ SumSeq(sample_tallies[2]) = 0
    /\ SumSeq(nonsample_tallies[2]) = 2
    /\ SumSeq([j \in 1..2 |-> final_tallies[j][2]]) = 4

\* ---------------------------------------------------------------------
\* C18: when the sample total of some county exceeds its declared
\* total_num_votes, a run of either simulator with num_trials >= 1 raises
\* ValueError (from dirichlet_multinomial) in its first trial and returns no
\* win probabilities, whatever the position of that county in the list; and
\* ValueError is raised for no other reason.
C18_SampleOverTotal ==
    /\ (~SamplesWithinTotals /\ num_trials >= 1) =>
          /\ sim_pc # "returned"
          /\ win_probs = None
          /\ trial = 0 => sim_pc = "loop" /\ ENABLED NextSim
          /\ trial >= 1 =>
                /\ trial = 1
                /\ sim_pc = "raised"
                /\ raised = "ValueError"
                /\ final_tallies = None
                /\ winners = None
                /\ SumValues(win_count) = 0
                /\ ~ENABLED NextSim
    /\ raised = "ValueError" => ~SamplesWithinTotals

\* The run was ended by the second of two counties, the first having its
\* sample within its total.
C18_Witness ==
    /\ num_trials >= 1
    /\ Len(sample_tallies) = 2
    /\ SumSeq(sample_tallies[1]) <= total_num_votes[1]
    /\ SumSeq(sample_tallies[2]) > total_num_votes[2]
    /\ trial = 1
    /\ sim_pc = "raised"
    /\ raised = "ValueError"
    /\ win_probs = None

\* ---------------------------------------------------------------------
\* C19: a run with num_trials <= 0 is a fatal failure: compute_win_probs and
\* compute_win_probs_rcv raise an error and return no win probabilities.
\* The code does not do this: compute_win_probs returns for a negative
\* num_trials.
C19_NonPositiveTrialsFail ==
    num_trials <= 0 =>
        /\ sim_pc # "returned"
        /\ win_probs = None
        /\ sim_pc = "loop" => ENABLED NextSim
        /\ sim_pc = "raised" => raised # None

\* compute_win_probs has returned for num_trials = -1, without a trial: every
\* candidate has the probability 0/-1.
C19_Witness ==
    /\ voting_method = "plurality_winner"
    /\ num_trials = 0 - 1
    /\ sim_pc = "returned"
    /\ raised = None
    /\ trial = 0
    /\ Len(win_probs) = Len(candidate_names)
    /\ Len(win_probs) >= 1
    /\ \A i \in DOMAIN win_probs : win_probs[i] = <<0, 0 - 1>>

\* ---------------------------------------------------------------------
\* C20: a vote_for_n that is zero or negative is rejected: the plurality
\* simulator raises an error and records no winners, instead of returning a
\* list of winners or win probabilities.  The code does not do this:
\* tallies[-vote_for_n:] is the whole list for vote_for_n = 0 and the list
\* without its first element for vote_for_n = -1.
C20_NonPositiveVoteForNFails ==
    vote_for_n <= 0 =>
        /\ sim_pc # "returned"
        /\ trial >= 1 =>
              /\ sim_pc = "raised"
              /\ raised # None
              /\ SumValues(win_count) = 0
              /\ winners = None
        /\ win_probs = None

\* With vote_for_n = 0 the only trial of a run made both candidates winners,
\* and the run returned the probability 1/1 for each.
C20_Witness ==
    /\ vote_for_n = 0
    /\ num_trials = 1
    /\ candidate_names = <<1, 2>>
    /\ sim_pc = "returned"
    /\ Len(winners) = 2
    /\ win_count = [i \in 0..2 |-> IF i = 0 THEN 0 ELSE 1]
    /\ win_probs = << <<1, 1>>, <<1, 1>> >>

\* ---------------------------------------------------------------------
\* C21: whenever the list of sample tallies and the list of totals have
\* different lengths, either one being the longer, the simulator fails: it
\* raises, records no winner and returns no win probabilities.  The code
\* does not do this when total_num_votes is the longer list: the entries
\* after the last county are never read.
C21_MismatchedLengthsFail ==
    Len(sample_tallies) # Len(total_num_votes) =>
        /\ sim_pc # "returned"
        /\ trial >= 1 =>
              /\ sim_pc = "raised"
              /\ raised # None
              /\ SumValues(win_count) = 0
        /\ win_probs = None

\* compute_win_probs has returned for one county and two totals, its only
\* trial having had a winner.
C21_Witness ==
    /\ voting_method = "plurality_winner"
    /\ Len(sample_tallies) = 1
    /\ Len(total_num_votes) = 2
    /\ num_trials = 1
    /\ sim_pc = "returned"
    /\ raised = None
    /\ SumValues(win_count) = 1
    /\ Len(win_probs) = Len(candidate_names)

\* ---------------------------------------------------------------------
\* C22: for every tally T, the sequence of ballots that T expands to has as
\* many ballots as the sum of T's counts, and collapsing it gives T back as
\* a multiset: every ballot has in the collapsed tally the count it has in T,
\* a ballot that is not a key counting as zero.
C22_RoundTrip ==
    /\ pc \in {"expanded", "collapsed"} =>
          /\ Len(rows) = SumValues(input_tally)
          /\ \A b \in ConvertBallots :
                Multiplicity("list", rows, b) = Multiplicity("dict", input_tally, b)
    /\ pc = "collapsed" =>
          /\ \A b \in ConvertBallots :
                Multiplicity("dict", L, b) = Multiplicity("dict", input_tally, b)
          /\ DOMAIN L \subseteq DOMAIN input_tally
          /\ SumValues(L) = Len(rows)

\* A tally of three ballots, one of them with the count zero and one with
\* the count two, was expanded and collapsed.
C22_Witness ==
    /\ pc = "collapsed"
    /\ DOMAIN input_tally = ConvertBallots
    /\ input_tally[<<>>] = 1
    /\ input_tally[<<"a">>] = 0
    /\ input_tally[<<"b", "a">>] = 2
    /\ rows = << <<"b", "a">>, <<"b", "a">>, <<>> >>
    /\ DOMAIN L = { <<>>, <<"b", "a">> }

\* ---------------------------------------------------------------------
\* C23: if in some round of rcv_winner a candidate holds strictly more than
\* half of the round's first-choice votes, that candidate is eliminated
\* neither in that round nor in any later one (it still holds more than half
\* in the next round), the run does not fail, and rcv_winner returns that
\* candidate in the end: the round to run does not fail and either returns
\* that candidate or eliminates another, a round that returns nothing leaves
\* fewer choices on the ballots than it found, and every round is followed by
\* the next until one returns a winner.

\* The names a choice can have.
ChoiceNames == {"a", "b", "c", "d", "e", "f"}

\* Candidate c holds more than half of the first-choice votes of tally T.
HoldsMajority(c, T) ==
    LET dd == count_first_choices(variant, T)
    IN c \in DOMAIN dd /\ 2 * dd[c] > SumValues(dd)

\* A round is about to be run on a tally in which c holds a majority.
MajorityRound(c) == pc = "rounds" /\ HoldsMajority(c, L)

\* The number of choices on the ballots of tally T.
ChoicesLeft(T) == Cardinality(ChoicesIn(variant, T))

C23_MajorityWins ==
    /\ [](\A c \in ChoiceNames :
            MajorityRound(c) =>
                \E r \in {rcv_round(variant, L, tie_breaker)} :
                    /\ ~r.failed
                    /\ r.w # None => r.w = c
                    /\ r.w = None => r.e # c /\ r.e \in ChoicesIn(variant, L))
    /\ [][\A c \in ChoiceNames :
            MajorityRound(c) =>
                /\ pc' # "failed"
                /\ round_number' = round_number + 1
                /\ pc' = "rounds" =>
                      /\ e' # c
                      /\ HoldsMajority(c, L')
                      /\ ChoicesLeft(L') < ChoicesLeft(L)
                /\ pc' = "done" => w' = c
                /\ pc' \in {"rounds", "done"}]_<<pc, round_number>>

\* A candidate that held two of the three first-choice votes of the first
\* round, and not all of them, was returned after a later round.
C23_Witness ==
    /\ pc = "done"
    /\ round_number >= 2
    /\ HoldsMajority(w, input_tally)
    /\ count_first_choices(variant, input_tally)[w] = 2
    /\ SumValues(count_first_choices(variant, input_tally)) = 3

\* ---------------------------------------------------------------------
\* C24: across the rounds of one run of rcv_winner, every round that returns
\* no winner removes exactly one candidate, the one it eliminates, from the
\* candidates on the ballots of the working tally, and changes nothing else
\* of that set; so an eliminated candidate is on no ballot of any later
\* round, and the winner returned is a candidate of the original tally that
\* was never eliminated.

\* The candidates of the original tally that are on no ballot any more.
Eliminated == ChoicesIn(variant, input_tally) \ ChoicesIn(variant, L)

\* The rounds run so far that returned no winner.
Eliminations == IF pc = "rounds" THEN round_number ELSE round_number - 1

C24_EliminatedStayOut ==
    /\ []((pc \in {"rounds", "done"}) =>
            /\ ChoicesIn(variant, L) \subseteq ChoicesIn(variant, input_tally)
            /\ Cardinality(Eliminated) = Eliminations
            /\ AfterElimination => e \in Eliminated
            /\ pc = "done" =>
                  /\ w \in ChoicesIn(variant, input_tally)
                  /\ w \notin Eliminated)
    /\ [][pc = "rounds" =>
            /\ pc' = "rounds" =>
                  /\ e' \in ChoicesIn(variant, L)
                  /\ ChoicesIn(variant, L') = ChoicesIn(variant, L) \ {e'}
            /\ pc' # "rounds" => L' = L]_<<pc, round_number>>

\* A run over the list of ballots returned its winner in the third round:
\* two candidates had been eliminated, one of them ranked twice on a ballot.
C24_Witness ==
    /\ variant = "list"
    /\ pc = "done"
    /\ round_number = 3
    /\ Cardinality(Eliminated) = 2
    /\ e \in Eliminated
    /\ w \notin Eliminated
    /\ \E b \in Range(input_tally) :
          \E i, j \in DOMAIN b : i # j /\ b[i] = b[j] /\ b[i] \in Eliminated

\* ---------------------------------------------------------------------
\* C25: across the rounds of one run of rcv_winner, every candidate counted
\* in a round and not eliminated by it is counted in the next round too, with
\* a first-choice count at least as large: an elimination only transfers
\* votes to other candidates or exhausts ballots.

C25_CountsNeverDecrease ==
    /\ [](AfterElimination =>
            /\ e \notin FirstChoicesIn(variant, L)
            /\ \A c \in ChoicesIn(variant, L) :
                  FirstChoiceVotes(variant, L, c)
                      >= FirstChoiceVotes(variant, prevL, c))
    /\ [][AfterElimination =>
            /\ e \notin DOMAIN d'
            /\ \A c \in DOMAIN d \ {e} :
                  c \in DOMAIN d' /\ d'[c] >= d[c]]_<<pc, round_number>>

\* In the second round one candidate is counted with more first choices than
\* in the original tally, where every candidate had one: the first
\* elimination transferred a vote.
C25_Witness ==
    /\ pc = "rounds"
    /\ round_number = 2
    /\ \A c \in ChoicesIn(variant, input_tally) :
          FirstChoiceVotes(variant, input_tally, c) >= 1
    /\ \E c \in DOMAIN d : d[c] > FirstChoiceVotes(variant, input_tally, c)

\* ---------------------------------------------------------------------
\* C26: the tally that clean returns has no ballot with the token
\* 'undervote' or 'overvote' at any position; so in the rounds run on it no
\* sentinel has a first-choice count, none is eliminated and none is the
\* winner returned.
C26_NoSentinelAfterClean ==
    (pc \in {"rounds", "done", "failed"}) =>
        /\ ChoicesIn(variant, input_tally) \cap Sentinels = {}
        /\ ChoicesIn(variant, L) \cap Sentinels = {}
        /\ DOMAIN d \cap Sentinels = {}
        /\ e \notin Sentinels
        /\ w \notin Sentinels

\* The rows read held both sentinels, one of them in first position, and the
\* run on the cleaned tally eliminated a candidate and returned a winner.
C26_Witness ==
    /\ pc = "done"
    /\ round_number >= 2
    /\ \E i \in DOMAIN rows : Len(rows[i]) > 0 /\ rows[i][1] = "undervote"
    /\ \E i \in DOMAIN rows : "overvote" \in Range(rows[i])
    /\ e \in Candidates
    /\ w \in Candidates

\* ---------------------------------------------------------------------
\* C27: the order of the two cleaning phases is significant: there is a
\* ballot that delete_undervotes followed by delete_overvotes cleans to a
\* different ballot than clean does, which runs delete_overvotes and then
\* delete_undervotes.
C27_OrderSignificant ==
    pc = "reordered" =>
        \E ballot \in RawBallots :
            clean_undervotes_first(variant, raw_tally(variant, <<ballot>>))
                # clean(variant, raw_tally(variant, <<ballot>>))

\* C27, as the code has it: the order of the two cleaning phases is not
\* significant: delete_undervotes followed by delete_overvotes returns, for
\* every ballot, the cleaned ballot that clean returns.
C27_PhasesCommute ==
    pc = "reordered" => L = clean(variant, raw_tally(variant, rows))

\* The phases ran undervotes first on a ballot with an overvote between two
\* undervotes and a candidate behind them.
C27_Witness ==
    /\ pc = "reordered"
    /\ \E i \in DOMAIN rows :
          \E j, k, l, m \in DOMAIN rows[i] :
              /\ j < k /\ k < l /\ l < m
              /\ rows[i][j] = "undervote"
              /\ rows[i][k] = "overvote"
              /\ rows[i][l] = "undervote"
              /\ rows[i][m] \in Candidates

\* ---------------------------------------------------------------------
\* C28: when two or more candidates are tied at the minimum first-choice
\* count of a round and none of them is in the tie-break list, as with the
\* empty list, rcv_round eliminates the one of them whose name is smallest in
\* string order; the choice depends on the counts only, which are the
\* numbers of ballots per first choice, not on the order of the ballots or
\* of the dictionary.

\* The candidates that hold the minimum first-choice count of the round.
TiedAtMinimum == {k \in DOMAIN d : \A j \in DOMAIN d : d[k] <= d[j]}

UnlistedTie ==
    /\ AfterElimination
    /\ Cardinality(TiedAtMinimum) >= 2
    /\ TiedAtMinimum \cap Range(tie_breaker) = {}

C28_SmallestNameEliminated ==
    UnlistedTie =>
        /\ \A k \in DOMAIN d : d[k] = FirstChoiceVotes(variant, prevL, k)
        /\ e \in TiedAtMinimum
        /\ \A k \in TiedAtMinimum : NameRank(e) <= NameRank(k)
        /\ \A k \in TiedAtMinimum \ {e} : NameRank(e) < NameRank(k)

\* With the empty tie-break list two candidates were tied with a vote each,
\* and the one eliminated is the first choice of a later row than the other.
C28_Witness ==
    /\ UnlistedTie
    /\ tie_breaker = <<>>
    /\ d[e] >= 1
    /\ \E i, j \in DOMAIN rows :
          /\ i < j
          /\ Len(rows[i]) > 0 /\ Len(rows[j]) > 0
          /\ rows[j][1] = e
          /\ rows[i][1] \in TiedAtMinimum \ {e}

====
